---- MODULE Spec2Model ----
(***************************************************************************)
(* A model of monitor_docker: the Monitor process (monitor_docker.py) with *)
(* its silencing registry, its periodic sweep and its command-poll loop,   *)
(* and the Supervisor (app_monitor_docker.py) that talks to it through     *)
(* three files: the command file, the status file and the alert log.       *)
(*                                                                         *)
(* Time is counted in whole minutes.  A file is <<>> when it does not      *)
(* exist and <<content>> when it does; a Python value that may be None is  *)
(* <<>> for None and <<value>> otherwise.  A text is a sequence of tokens: *)
(* words, and SP or NL for a run of blanks or a newline.                   *)
(***************************************************************************)
EXTENDS Integers, Sequences, FiniteSets, TLC

VARIABLES
  now,              \* the wall clock, datetime.now(), in minutes
  silenced_alerts,  \* monitor_docker.py: the dictionary name -> expiry time
  last_silence,     \* history: per name, the last direct silence_alert call (<<>> or <<[at, d, shortened]>>)
  ret,              \* the last is_silenced call: <<name, value returned>> (<<>> when none)
  command_file,     \* COMMAND_FILE
  status_file,      \* STATUS_FILE
  main_alive,       \* the Monitor's main thread is still in its command loop
  command,          \* main(): the value read_command returned in the last iteration
  sweep_list,       \* check_containers: the list docker_client.containers.list() returned
  sweep_i,          \* check_containers: 0 between sweeps, else the place in the list; Len + 1 is the disk check
  alerts,           \* the send_alert calls of the last step of the sweep
  ran,              \* the checks the last step of the sweep ran
  container_file,   \* CONTAINER_FILE, the alert log: <<>> or <<sequence of records>>
  last_logged_usage, \* check_disk_usage: device -> last logged percent
  wr_pc,            \* send_command: "idle", or "open" between open(COMMAND_FILE, 'w') and the close
  wr_cmd,           \* send_command: the text being written
  wr_linked,        \* send_command: the open file is still the one named COMMAND_FILE
  rd_pc,            \* main()'s iteration: "idle", "read", "remove" or "handle"
  ap_pc,            \* write_container_logs: "idle", or "open" between open(CONTAINER_FILE, 'a') and the close
  ap_rec,           \* write_container_logs: the line being appended
  ap_linked,        \* write_container_logs: the open file is still the one named CONTAINER_FILE
  relay_pc,         \* check_and_send_container_logs: "idle", "read", "remove" or "send"
  relay_logs,       \* check_and_send_container_logs: logs
  appended,         \* history: the number of write_container_logs calls that returned
  forwarded,        \* history: the number of alert lines sent to the chat
  pending,          \* handle_command: the write_status calls it has still to make
  status_cmd,       \* history: the command whose handling wrote STATUS_FILE (<<>> or <<command>>)
  poll_pc,          \* a query handler of the Supervisor: "idle", "wait", "call", "poll", "sleep" or "done"
  poll_elapsed,     \* read_status_with_polling: time.time() - start_time, in seconds
  poll_result,      \* read_status_with_polling: the value returned (<<>> before the return)
  poll_cmd,         \* the command the handler sent before it polls
  lk_pc,            \* check_container_logs, lines 94-100: "idle", "expiry" or "delete"
  lk_name,          \* check_container_logs: container.name
  lk_raised,        \* the lookup of the sweep has raised KeyError
  un_pc,            \* handle_command: "idle", "delete" (unsilence_alert) or "iterate" (status)
  un_name,          \* unsilence_alert: container_name
  it_size,          \* the status command's iteration: the size of the dictionary at its start
  it_left,          \* the status command's iteration: the keys not yet visited
  monitoring_process, \* app_monitor_docker.py: None (<<>>) or the Popen handle (<<index into procs>>)
  procs,            \* every child the Supervisor has spawned: "starting", "running" or "exited"
  signalled,        \* the children with a SIGTERM sent and not yet delivered
  stop_pc,          \* stop_monitoring: "idle", or "wait" between terminate() and the return of wait()
  bot_said,         \* the last bot.send_message text of start_monitoring or stop_monitoring
  shutdown_flag,    \* monitor_docker.py: shutdown_flag.is_set()
  cut               \* history: where a child's loops stood when it ended (<<>> or <<[sweep, rd]>>)

regVars == <<silenced_alerts, last_silence, ret>>
cmdVars == <<command_file, status_file, main_alive, command>>
sweepVars == <<sweep_list, sweep_i, alerts, ran, last_logged_usage>>

slotVars == <<wr_pc, wr_cmd, wr_linked, rd_pc>>
relayVars == <<ap_pc, ap_rec, ap_linked, relay_pc, relay_logs, appended, forwarded>>

pollVars == <<pending, status_cmd, poll_pc, poll_elapsed, poll_result, poll_cmd>>

raceVars == <<lk_pc, lk_name, lk_raised, un_pc, un_name, it_size, it_left>>

superVars == <<monitoring_process, procs, signalled, stop_pc, bot_said, shutdown_flag, cut>>

vars ==
  <<now, regVars, cmdVars, sweepVars, container_file, slotVars, relayVars, pollVars, raceVars, superVars>>

----------------------------------------------------------------------------
(* Bounds of the model *)

MaxTime == 3

(* The container names the operator can type and the runtime can list. *)
Names == {"web", "db"}

----------------------------------------------------------------------------
(* Texts *)

SP == " "

NL == "\n"

(* The tokens str.strip() and str.split() take for whitespace. *)
Whitespace == {SP, NL}

RECURSIVE LStrip(_)
LStrip(t) == IF t # <<>> /\ Head(t) \in Whitespace THEN LStrip(Tail(t)) ELSE t

RECURSIVE RStrip(_)
RStrip(t) ==
  IF t # <<>> /\ t[Len(t)] \in Whitespace THEN RStrip(SubSeq(t, 1, Len(t) - 1)) ELSE t

(* str.strip(): the text without its leading and trailing whitespace. *)
Strip(t) == RStrip(LStrip(t))

(* str.split(): the words of the text, whitespace runs dropped. *)
Split(t) == SelectSeq(t, LAMBDA w : w \notin Whitespace)

(* str.startswith(word), at the granularity of tokens. *)
StartsWith(t, word) == t # <<>> /\ Head(t) = word

(* int(): the decimal numerals the operator types; any other word raises ValueError. *)
Numerals == ("0" :> 0) @@ ("1" :> 1) @@ ("2" :> 2)

IsNumeral(w) == w \in DOMAIN Numerals

(* The duration words an operator types after /silence: numerals, and a word that is none. *)
DurationWords == DOMAIN Numerals \cup {"abc"}

----------------------------------------------------------------------------
(* The silencing registry *)

(* A plausible slip: a silence in force is never shortened. *)
silence_alert_extend(reg, container_name, duration_minutes, t) ==
  [n \in DOMAIN reg \cup {container_name} |->
     IF n # container_name THEN reg[n]
     ELSE IF n \in DOMAIN reg /\ reg[n] > t + duration_minutes THEN reg[n]
     ELSE t + duration_minutes]

(* silence_alert: the registry after the call at time t (expiry = t + duration). *)
silence_alert(reg, container_name, duration_minutes, t) ==
  [n \in DOMAIN reg \cup {container_name} |->
     IF n = container_name THEN t + duration_minutes ELSE reg[n]]

(* A plausible slip: the registry is emptied. *)
unsilence_alert_clear(reg, container_name) ==
  [n \in {} |-> 0]

(* unsilence_alert: the registry after the call. *)
unsilence_alert(reg, container_name) ==
  [n \in DOMAIN reg \ {container_name} |-> reg[n]]

(* A plausible slip: the entry still counts at its expiry time. *)
is_silenced_inclusive(reg, container_name, t) ==
  container_name \in DOMAIN reg /\ t <= reg[container_name]

(* is_silenced: the value returned at time t. *)
is_silenced(reg, container_name, t) ==
  container_name \in DOMAIN reg /\ t < reg[container_name]

(* A plausible slip: the lookup purges every expired entry it comes across. *)
is_silenced_registry_purge_all(reg, container_name, t) ==
  IF container_name \in DOMAIN reg /\ ~(t < reg[container_name])
  THEN [n \in {m \in DOMAIN reg : t < reg[m]} |-> reg[n]]
  ELSE reg

(* is_silenced: the registry after the call at time t (an expired entry is deleted). *)
is_silenced_registry(reg, container_name, t) ==
  IF container_name \in DOMAIN reg /\ ~(t < reg[container_name])
  THEN [n \in DOMAIN reg \ {container_name} |-> reg[n]]
  ELSE reg

----------------------------------------------------------------------------
(* Status reports: what write_status is given *)

Report(kind, name, num, items) == [kind |-> kind, name |-> name, num |-> num, items |-> items]

(* The lines of the status command: one per entry of the registry, with the
   remaining minutes computed at time t. *)
StatusLines(reg, t) == {<<n, reg[n] - t>> : n \in DOMAIN reg}

(* What the runtime, psutil and sudo truncate can answer to a command. *)
EnvAnswers == {"ok", "empty", "fail"}

(* handle_command: [raised, reg, writes]: whether the call raised, the registry
   after it and the reports it gave to write_status, in order. *)
handle_command(cmd, reg, t, env) ==
  LET parts == Split(cmd)
      done(r, w) == [raised |-> FALSE, reg |-> r, writes |-> w]
      raise == [raised |-> TRUE, reg |-> reg, writes |-> <<>>]
  IN
  IF StartsWith(cmd, "silence") THEN
    IF Len(parts) # 3 THEN raise
    ELSE IF ~IsNumeral(parts[3]) THEN raise
    ELSE done(silence_alert(reg, parts[2], Numerals[parts[3]], t),
              <<Report("silenced", parts[2], Numerals[parts[3]], {})>>)
  ELSE IF StartsWith(cmd, "unsilence") THEN
    IF Len(parts) # 2 THEN raise
    ELSE done(unsilence_alert(reg, parts[2]),
              <<Report(IF parts[2] \in DOMAIN reg THEN "unsilenced" ELSE "was_not_silenced",
                       parts[2], 0, {})>>)
  ELSE IF cmd = <<"status">> THEN
    done(reg, <<Report(IF DOMAIN reg # {} THEN "silenced_list" ELSE "none_silenced",
                       "", 0, StatusLines(reg, t))>>)
  ELSE IF cmd = <<"list">> THEN
    done(reg, <<Report(CASE env = "ok" -> "containers"
                         [] env = "empty" -> "no_containers"
                         [] OTHER -> "list_error", "", 0, {})>>)
  ELSE IF cmd = <<"log_clear">> THEN
    LET r == Report(IF env = "fail" THEN "truncate_failed" ELSE "truncated", "", 0, {})
    IN done(reg, <<r, r>>)
  ELSE IF cmd = <<"disk_usage">> THEN
    done(reg, <<Report(IF env = "fail" THEN "disk_error" ELSE "disk_report", "", 0, {})>>)
  ELSE done(reg, <<Report("", "", 0, {})>>)

----------------------------------------------------------------------------
(* The Supervisor's side of the command file *)

(* The command texts the Supervisor's handlers give to send_command. *)
SilenceCommands == {<<"silence", SP, n, SP, d>> : n \in Names, d \in DurationWords}

UnsilenceCommands == {<<"unsilence", SP, n>> : n \in Names}

QueryCommands == {<<"status">>, <<"list">>, <<"disk_usage">>, <<"log_clear">>}

Commands == SilenceCommands \cup UnsilenceCommands \cup QueryCommands

(* send_command, run to its end without the Monitor in between. *)
send_command(c) ==
  /\ command_file' = <<c>>
  /\ UNCHANGED <<slotVars, relayVars, now, regVars, status_file, main_alive, command, sweepVars, container_file, pollVars, raceVars, superVars>>

(* One poll of read_status_with_polling that finds the file: read, then remove. *)
read_status ==
  /\ status_file # <<>>
  /\ status_file' = <<>>
  /\ UNCHANGED <<slotVars, relayVars, now, regVars, command_file, main_alive, command, sweepVars, container_file, pollVars, raceVars, superVars>>

----------------------------------------------------------------------------
(* The Monitor's command loop *)

(* A plausible slip: the file is read and left in place. *)
read_command_keep(file) ==
  [value |-> IF file = <<>> THEN <<>> ELSE <<Strip(file[1])>>, file |-> file]

(* read_command: the value returned (None when there is no file) and the file
   after the call (removed). *)
read_command(file) ==
  [value |-> IF file = <<>> THEN <<>> ELSE <<Strip(file[1])>>, file |-> <<>>]

(* One iteration of main()'s loop: read_command, and handle_command when the
   command is not None and not empty.  A raise in handle_command is caught
   nowhere: it ends the loop. *)
main_loop(env) ==
  /\ main_alive
  /\ command' = read_command(command_file).value
  /\ command_file' = read_command(command_file).file
  /\ IF command' # <<>> /\ command'[1] # <<>>
     THEN LET out == handle_command(command'[1], silenced_alerts, now, env) IN
          /\ main_alive' = ~out.raised
          /\ silenced_alerts' = out.reg
          /\ status_file' = IF out.writes = <<>> THEN status_file
                            ELSE <<out.writes[Len(out.writes)]>>
     ELSE UNCHANGED <<main_alive, silenced_alerts, status_file>>
  /\ UNCHANGED <<slotVars, relayVars, now, last_silence, ret, sweepVars, container_file, pollVars, raceVars, superVars>>

(* A minute passes. *)
Tick ==
  /\ now < MaxTime
  /\ now' = now + 1
  /\ UNCHANGED <<slotVars, relayVars, regVars, cmdVars, sweepVars, container_file, pollVars, raceVars, superVars>>

----------------------------------------------------------------------------
(* The log scanner.  A log is a sequence of characters. *)

(* re.IGNORECASE: the lower-case form of a letter. *)
LowerCase ==
  ("A" :> "a") @@ ("B" :> "b") @@ ("C" :> "c") @@ ("D" :> "d") @@
  ("E" :> "e") @@ ("F" :> "f") @@ ("G" :> "g") @@ ("H" :> "h") @@
  ("I" :> "i") @@ ("J" :> "j") @@ ("K" :> "k") @@ ("L" :> "l") @@
  ("M" :> "m") @@ ("N" :> "n") @@ ("O" :> "o") @@ ("P" :> "p") @@
  ("Q" :> "q") @@ ("R" :> "r") @@ ("S" :> "s") @@ ("T" :> "t") @@
  ("U" :> "u") @@ ("V" :> "v") @@ ("W" :> "w") @@ ("X" :> "x") @@
  ("Y" :> "y") @@ ("Z" :> "z")

Lower(c) == IF c \in DOMAIN LowerCase THEN LowerCase[c] ELSE c

ErrorPattern1 ==
  <<"e", "r", "r", "o", "r">>

ErrorPattern2 ==
  <<"e", "x", "c", "e", "p", "t", "i", "o", "n">>

ErrorPattern3 ==
  <<"f", "a", "i", "l">>

ErrorPattern4 ==
  <<"c", "r", "i", "t", "i", "c", "a", "l">>

ERROR_PATTERNS == <<ErrorPattern1, ErrorPattern2, ErrorPattern3, ErrorPattern4>>

IgnorePattern1 ==
  <<"F", "a", "i", "l", "e", "d", " ", "t", "o", " ", "f", "e", "t", "c",
    "h", " ", "p", "r", "i", "c", "e", " ", "f", "o", "r", " ", "t", "i",
    "c", "k", "e", "r">>

IgnorePattern2 ==
  <<"N", "o", " ", "p", "r", "i", "c", "e", " ", "f", "e", "t", "c", "h",
    "e", "d">>

IgnorePattern3 ==
  <<"u", "s", "e", " ", "o", "f", " ", "c", "l", "o", "s", "e", "d", " ",
    "n", "e", "t", "w", "o", "r", "k", " ", "c", "o", "n", "n", "e", "c",
    "t", "i", "o", "n">>

IgnorePattern4 ==
  <<"F", "a", "i", "l", "e", "d", " ", "t", "o", " ", "l", "i", "s", "t",
    " ", "c", "o", "n", "t", "a", "i", "n", "e", "r", "s", " ", "f", "o",
    "r", " ", "d", "o", "c", "k", "e", "r">>

IgnorePattern5 ==
  <<"C", "a", "n", "n", "o", "t", " ", "c", "o", "n", "n", "e", "c", "t",
    " ", "t", "o", " ", "d", "o", "c", "k", "e", "r", " ", "s", "e", "r",
    "v", "e", "r", " ", "c", "o", "n", "t", "e", "x", "t", " ", "c", "a",
    "n", "c", "e", "l", "e", "d">>

IgnorePattern6 ==
  <<"/", "l", "i", "b", "/", "p", "y", "t", "h", "o", "n", "2", ".", "7",
    "/", "s", "i", "t", "e", "-", "p", "a", "c", "k", "a", "g", "e", "s",
    "/", "c", "h", "a", "m", "e", "l", "e", "o", "n", "/", "p", "y", "2",
    "6", ".", "p", "y">>

IGNORE_PATTERNS ==
  <<IgnorePattern1, IgnorePattern2, IgnorePattern3, IgnorePattern4,
    IgnorePattern5, IgnorePattern6>>

(* The characters of context kept on each side of a match. *)
ContextWidth == 100

(* The regular expression pat (literal characters, and "." for any character
   but a newline) matches text at place i, ignoring case. *)
MatchAt(text, pat, i) ==
  /\ i >= 1
  /\ i + Len(pat) - 1 <= Len(text)
  /\ \A k \in 1..Len(pat) :
       IF pat[k] = "." THEN text[i + k - 1] # "\n"
       ELSE Lower(text[i + k - 1]) = Lower(pat[k])

(* re.finditer: the places of the matches of pat from place i on, left to
   right, none overlapping another. *)
RECURSIVE FindIter(_, _, _)
FindIter(text, pat, i) ==
  LET places == {j \in i..(Len(text) - Len(pat) + 1) : MatchAt(text, pat, j)} IN
  IF places = {} THEN <<>>
  ELSE LET first == CHOOSE j \in places : \A k \in places : j <= k
       IN <<first>> \o FindIter(text, pat, first + Len(pat))

(* re.search: pat matches somewhere in text. *)
Search(pat, text) == \E i \in 1..Len(text) : MatchAt(text, pat, i)

Max(a, b) == IF a >= b THEN a ELSE b

Min(a, b) == IF a <= b THEN a ELSE b

(* A plausible slip: the ignore patterns are looked for in the match alone. *)
ContextOfMatch(text, pat, i) ==
  SubSeq(text, i, i + Len(pat) - 1)

(* logs[max(0, start - 100) : min(len(logs), end + 100)] for the match of pat at place i. *)
Context(text, pat, i) ==
  SubSeq(text, Max(1, i - ContextWidth), Min(Len(text), i + Len(pat) - 1 + ContextWidth))

Ignored(context) == \E k \in 1..Len(IGNORE_PATTERNS) : Search(IGNORE_PATTERNS[k], context)

(* The contexts of the matches of one pattern that no ignore pattern discards. *)
SurvivingContexts(text, pat) ==
  LET places == FindIter(text, pat, 1)
      contexts == [k \in 1..Len(places) |-> Context(text, pat, places[k])]
  IN SelectSeq(contexts, LAMBDA c : ~Ignored(c))

(* check_container_logs, lines 104-114: the contexts alerted, pattern by pattern. *)
RECURSIVE ScanFrom(_, _)
ScanFrom(text, p) ==
  IF p > Len(ERROR_PATTERNS) THEN <<>>
  ELSE SurvivingContexts(text, ERROR_PATTERNS[p]) \o ScanFrom(text, p + 1)

ScanLog(text) == ScanFrom(text, 1)

(* The log tails the runtime returns in the model. *)
CleanLog ==
  <<"s", "t", "a", "r", "t", "e", "d", " ", "o", "k">>

ErrorLog ==
  <<"E", "R", "R", "O", "R", ":", " ", "d", "i", "s", "k", " ", "f", "u",
    "l", "l">>

IgnoredLog ==
  <<"N", "o", " ", "p", "r", "i", "c", "e", " ", "f", "e", "t", "c", "h",
    "e", "d", " ", "E", "R", "R", "O", "R", ":", " ", "d", "i", "s", "k",
    " ", "f", "u", "l", "l">>

LogSamples == {CleanLog, ErrorLog, IgnoredLog}

(* A run of k characters that no pattern matches. *)
Filler(k) == [i \in 1..k |-> "x"]

(* The longest run between an ignore phrase of 16 characters and a match for
   the phrase to lie within the context of the match. *)
NearGap == ContextWidth - Len(IgnorePattern2)

(* "ERROR: disk full" with an ignore phrase before it that ends NearGap
   characters before the match: the phrase is in the context. *)
NearBeforeLog == IgnorePattern2 \o Filler(NearGap) \o ErrorLog

(* The same with one character more in between: the phrase begins outside
   the context. *)
FarBeforeLog == IgnorePattern2 \o Filler(NearGap + 1) \o ErrorLog

(* "ERROR" with an ignore phrase, in capitals, that ends 100 characters after
   the end of the match. *)
NearAfterLog ==
  <<"E", "R", "R", "O", "R">> \o Filler(NearGap)
    \o <<"N", "O", " ", "P", "R", "I", "C", "E", " ", "F", "E", "T", "C", "H",
         "E", "D">>

(* The same with one character more in between. *)
FarAfterLog ==
  <<"E", "R", "R", "O", "R">> \o Filler(NearGap + 1)
    \o <<"N", "O", " ", "P", "R", "I", "C", "E", " ", "F", "E", "T", "C", "H",
         "E", "D">>

(* Two patterns match, and one of them twice. *)
ThreeMatchesLog ==
  <<"C", "r", "i", "t", "i", "c", "a", "l", " ", "e", "r", "r", "o", "r", ":",
    " ", "E", "r", "r", "o", "r", " ", "4", "2">>

(* An ignore phrase alone: its own "Fail" is a match, discarded. *)
PhraseOnlyLog == IgnorePattern1

(* The log tails with which the context window is checked. *)
WindowLogSamples ==
  {NearBeforeLog, FarBeforeLog, NearAfterLog, FarAfterLog, ThreeMatchesLog, PhraseOnlyLog}

(* The scan of each of these log tails. *)
ScanTable == [text \in LogSamples \cup WindowLogSamples |-> ScanLog(text)]

----------------------------------------------------------------------------
(* The sweep: what the runtime answers for one container *)

CPU_THRESHOLD == 90

MEMORY_THRESHOLD == 90

DISK_THRESHOLD == 90

RestartCeiling == 3

(* The errors a call of the runtime raises: docker.errors.APIError, and the
   requests exceptions ReadTimeout and ConnectionError. *)
Faults == {"APIError", "ReadTimeout", "ConnectionError"}

(* A running container with nothing to report. *)
Healthy ==
  [reload |-> "ok", status |-> "running", logs_fault |-> "ok", logs |-> CleanLog,
   stats_fault |-> "ok", cpu |-> <<50, 100>>, mem |-> <<500, 1000>>,
   restart_count |-> 0, image_fault |-> "ok", tags |-> <<"web:v1">>]

(* A container with every anomaly at once. *)
AllBad ==
  [Healthy EXCEPT !.logs = ErrorLog, !.cpu = <<95, 100>>, !.mem = <<950, 1000>>,
                  !.restart_count = 4, !.tags = <<"latest">>]

(* What reload, logs, stats, attrs and image answer for a container: the
   healthy answers, each one changed alone, and all anomalies together. *)
Scenarios ==
  {Healthy, AllBad}
  \cup {[Healthy EXCEPT !.reload = f] : f \in Faults}
  \cup {[Healthy EXCEPT !.status = "exited", !.logs = l] : l \in LogSamples}
  \cup {[Healthy EXCEPT !.status = "exited", !.logs_fault = f] : f \in Faults}
  \cup {[Healthy EXCEPT !.logs_fault = f] : f \in Faults}
  \cup {[Healthy EXCEPT !.logs = l] : l \in LogSamples}
  \cup {[Healthy EXCEPT !.stats_fault = f] : f \in Faults}
  \cup {[Healthy EXCEPT !.cpu = c] : c \in {<<90, 100>>, <<95, 100>>, <<50, 0>>}}
  \cup {[Healthy EXCEPT !.mem = m] : m \in {<<900, 1000>>, <<950, 1000>>, <<950, 0>>}}
  \cup {[Healthy EXCEPT !.restart_count = r] : r \in {RestartCeiling, RestartCeiling + 1}}
  \cup {[Healthy EXCEPT !.image_fault = f] : f \in Faults}
  \cup {[Healthy EXCEPT !.tags = t] : t \in {<<>>, <<"latest">>, <<"web:latest">>}}

(* Counters below, at, just above and well above 90 percent. *)
CpuCounters == {<<50, 100>>, <<90, 100>>, <<91, 100>>, <<95, 100>>}

MemoryCounters == {<<500, 1000>>, <<900, 1000>>, <<901, 1000>>, <<950, 1000>>}

(* The answers with which the checks of one container are examined closely:
   those above, every pair of counters, and the log tails of the context
   window. *)
CheckScenarios ==
  Scenarios
  \cup {[Healthy EXCEPT !.cpu = c, !.mem = m] : c \in CpuCounters, m \in MemoryCounters}
  \cup {[Healthy EXCEPT !.logs = l] : l \in WindowLogSamples}

----------------------------------------------------------------------------
(* The sweep: the checks of one container *)

(* send_alert(container_name, message). *)
Alert(name, kind, body) == [name |-> name, kind |-> kind, body |-> body]

(* write_container_logs(container_name, reason): the line appended. *)
Record(name, reason) == [name |-> name, reason |-> reason]

(* What a check did: its send_alert calls, the lines it appended to the alert
   log, and the registry after it. *)
Outcome(a, r, reg) == [alerts |-> a, records |-> r, reg |-> reg]

(* A plausible slip: the threshold itself already alerts. *)
PercentAtOrAbove(usage, total, threshold) == usage * 100 >= threshold * total

(* (usage / total) * 100 > threshold; a zero total is handled by the caller.
   For the counters of the model the float result compares as the exact ratio. *)
PercentAbove(usage, total, threshold) == usage * 100 > threshold * total

(* (usage / total) * 100 as the alert prints it, with two decimals: the
   percent in hundredths, to the nearest. *)
Percent(usage, total) == (usage * 20000 + total) \div (2 * total)

(* check_container_logs *)
check_container_logs(name, sc, reg, t) ==
  IF name \in DOMAIN reg /\ t < reg[name] THEN Outcome(<<>>, <<>>, reg)
  ELSE
    LET purged == [n \in DOMAIN reg \ {name} |-> reg[n]]
        found == IF sc.logs_fault # "ok" THEN <<>> ELSE ScanTable[sc.logs]
    IN Outcome([k \in 1..Len(found) |-> Alert(name, "error_in_log", found[k])],
               [k \in 1..Len(found) |-> Record(name, "Errors in Log")],
               purged)

(* check_container_resources *)
check_container_resources(name, sc, reg) ==
  IF sc.stats_fault # "ok" \/ sc.cpu[2] = 0 \/ sc.mem[2] = 0 THEN Outcome(<<>>, <<>>, reg)
  ELSE
    LET cpu == PercentAbove(sc.cpu[1], sc.cpu[2], CPU_THRESHOLD)
        mem == PercentAbove(sc.mem[1], sc.mem[2], MEMORY_THRESHOLD)
    IN Outcome(
         (IF cpu THEN <<Alert(name, "high_cpu", Percent(sc.cpu[1], sc.cpu[2]))>> ELSE <<>>)
           \o (IF mem THEN <<Alert(name, "high_memory", Percent(sc.mem[1], sc.mem[2]))>>
               ELSE <<>>),
         (IF cpu THEN <<Record(name, "CPU Threshold Too High")>> ELSE <<>>)
           \o (IF mem THEN <<Record(name, "Memory Threshold Too High")>> ELSE <<>>),
         reg)

(* check_container_restarts *)
check_container_restarts(name, sc, reg) ==
  IF sc.restart_count > RestartCeiling
  THEN Outcome(<<Alert(name, "restarts", sc.restart_count)>>,
               <<Record(name, "Too Many Restarts")>>, reg)
  ELSE Outcome(<<>>, <<>>, reg)

(* check_image_version: no tag at all, or a tag that is the word 'latest'
   ('latest' in tags is a test of list membership). *)
check_image_version(name, sc, reg) ==
  IF sc.image_fault = "ok" /\ (sc.tags = <<>> \/ \E k \in 1..Len(sc.tags) : sc.tags[k] = "latest")
  THEN Outcome(<<Alert(name, "image", sc.tags)>>, <<Record(name, "Image Check issue")>>, reg)
  ELSE Outcome(<<>>, <<>>, reg)

(* A plausible slip: the status compared with a word the runtime never reports. *)
IsExitedStopped(sc) == sc.status = "stopped"

(* check_containers, line 220: container.status == 'exited'. *)
IsExited(sc) == sc.status = "exited"

(* The body of check_containers' loop for one container: [alerts, records,
   reg, ran, aborted], where aborted says that an exception left the loop. *)
check_container(name, sc, reg, t) ==
  LET result(a, r, g, checks, aborted) ==
        [alerts |-> a, records |-> r, reg |-> g, ran |-> checks, aborted |-> aborted]
      failed(f) ==
        IF f = "APIError"
        THEN result(<<Alert(name, "check_error", f)>>, <<>>, reg, {}, FALSE)
        ELSE result(<<>>, <<>>, reg, {}, TRUE)
  IN
  IF sc.reload # "ok" THEN failed(sc.reload)
  ELSE IF IsExited(sc) THEN
    IF sc.logs_fault # "ok" THEN failed(sc.logs_fault)
    ELSE result(<<Alert(name, "has_stopped", sc.logs)>>, <<>>, reg, {}, FALSE)
  ELSE
    LET logs == check_container_logs(name, sc, reg, t)
        resources == check_container_resources(name, sc, logs.reg)
        restarts == check_container_restarts(name, sc, resources.reg)
        image == check_image_version(name, sc, restarts.reg)
    IN result(logs.alerts \o resources.alerts \o restarts.alerts \o image.alerts,
              logs.records \o resources.records \o restarts.records \o image.records,
              image.reg, {"logs", "resources", "restarts", "image"}, FALSE)

(* write_container_logs, line by line: the alert log after the appends. *)
AppendRecords(file, records) ==
  IF records = <<>> THEN file
  ELSE IF file = <<>> THEN <<records>>
  ELSE <<file[1] \o records>>

----------------------------------------------------------------------------
(* The sweep: check_containers_periodically *)

(* The lists docker_client.containers.list() returns. *)
ContainerLists == {<<>>, <<"web">>, <<"web", "db">>}

(* check_containers_periodically wakes up from its 300 seconds of sleep, in
   which the Supervisor's relay (every 5 seconds) has emptied the alert log,
   and check_containers lists the containers. *)
sweep_start(list) ==
  /\ sweep_i = 0
  /\ container_file = <<>>
  /\ sweep_list' = list
  /\ sweep_i' = 1
  /\ alerts' = <<>>
  /\ ran' = {}
  /\ UNCHANGED <<slotVars, relayVars, now, regVars, cmdVars, last_logged_usage, container_file, pollVars, raceVars, superVars>>

(* The list call raises: check_containers_periodically logs it and sleeps. *)
sweep_start_fails ==
  /\ sweep_i = 0
  /\ container_file = <<>>
  /\ sweep_list' = <<>>
  /\ alerts' = <<>>
  /\ ran' = {}
  /\ UNCHANGED <<slotVars, relayVars, now, regVars, cmdVars, sweep_i, last_logged_usage, container_file, pollVars, raceVars, superVars>>

(* The loop body of check_containers for the next container of the list. *)
sweep_container(sc) ==
  /\ sweep_i >= 1
  /\ sweep_i <= Len(sweep_list)
  /\ LET out == check_container(sweep_list[sweep_i], sc, silenced_alerts, now) IN
     /\ alerts' = out.alerts
     /\ ran' = out.ran
     /\ container_file' = AppendRecords(container_file, out.records)
     /\ silenced_alerts' = out.reg
     /\ sweep_i' = IF out.aborted THEN 0 ELSE sweep_i + 1
  /\ UNCHANGED <<slotVars, relayVars, now, last_silence, ret, cmdVars, sweep_list, last_logged_usage, pollVars, raceVars, superVars>>

(* The partitions of the host: two disks, and a snap mount that is skipped. *)
Partitions ==
  <<[device |-> "/dev/sda1", mountpoint |-> "/"],
    [device |-> "/dev/loop0", mountpoint |-> "/snap/core"],
    [device |-> "/dev/sdb1", mountpoint |-> "/data"]>>

(* 'snap' in partition.mountpoint *)
HasSnap(mountpoint) == mountpoint \in {"/snap/core"}

(* The partitions check_disk_usage looks at. *)
KeptPartitions == SelectSeq(Partitions, LAMBDA p : ~HasSnap(p.mountpoint))

KeptDevices == {KeptPartitions[k].device : k \in 1..Len(KeptPartitions)}

(* The usage percents psutil reports for a partition. *)
DiskPercents == {85, 90, 91, 95}

(* What psutil.disk_usage answers in one call of check_disk_usage. *)
DiskUsages == [KeptDevices -> DiskPercents]

(* The change of percent that makes check_disk_usage log a partition again. *)
DiskNoise == 5

Abs(x) == IF x < 0 THEN -x ELSE x

(* check_disk_usage, line 161: the partition is logged and cached. *)
DiskLogged(cache, device, percent) ==
  device \notin DOMAIN cache \/ Abs(cache[device] - percent) > DiskNoise

(* check_disk_usage: last_logged_usage after the call. *)
check_disk_usage(cache, usage) ==
  LET logged == {d \in KeptDevices : DiskLogged(cache, d, usage[d])}
  IN [d \in DOMAIN cache \cup logged |-> IF d \in logged THEN usage[d] ELSE cache[d]]

(* The end of check_containers: check_disk_usage, which calls send_alert nowhere. *)
sweep_disk(usage) ==
  /\ sweep_i >= 1
  /\ sweep_i = Len(sweep_list) + 1
  /\ last_logged_usage' = check_disk_usage(last_logged_usage, usage)
  /\ alerts' = <<>>
  /\ ran' = {"disk"}
  /\ sweep_i' = 0
  /\ UNCHANGED <<slotVars, relayVars, now, regVars, cmdVars, sweep_list, container_file, pollVars, raceVars, superVars>>

(* One round of check_and_send_container_logs that finds the alert log, run
   to its end without the Monitor in between: read, remove, send to the chat. *)
relay_round ==
  /\ container_file # <<>>
  /\ container_file' = <<>>
  /\ UNCHANGED <<slotVars, relayVars, now, regVars, cmdVars, sweepVars, pollVars, raceVars, superVars>>

----------------------------------------------------------------------------
(* The Monitor's command side and the Supervisor's handlers *)

Init ==
  /\ now = 0
  /\ silenced_alerts = [n \in {} |-> 0]
  /\ last_silence = [n \in Names |-> <<>>]
  /\ command_file = <<>>
  /\ status_file = <<>>
  /\ main_alive = TRUE
  /\ command = <<>>
  /\ ret = <<>>
  /\ sweep_list = <<>>
  /\ sweep_i = 0
  /\ alerts = <<>>
  /\ ran = {}
  /\ container_file = <<>>
  /\ last_logged_usage = [d \in {} |-> 0]
  /\ wr_pc = "idle"
  /\ wr_cmd = <<>>
  /\ wr_linked = FALSE
  /\ rd_pc = "idle"
  /\ ap_pc = "idle"
  /\ ap_rec = <<>>
  /\ ap_linked = FALSE
  /\ relay_pc = "idle"
  /\ relay_logs = <<>>
  /\ appended = 0
  /\ forwarded = 0
  /\ pending = <<>>
  /\ status_cmd = <<>>
  /\ poll_pc = "idle"
  /\ poll_elapsed = 0
  /\ poll_result = <<>>
  /\ poll_cmd = <<>>
  /\ lk_pc = "idle"
  /\ lk_name = ""
  /\ lk_raised = FALSE
  /\ un_pc = "idle"
  /\ un_name = ""
  /\ it_size = 0
  /\ it_left = {}
  /\ monitoring_process = <<>>
  /\ procs = <<>>
  /\ signalled = {}
  /\ stop_pc = "idle"
  /\ bot_said = ""
  /\ shutdown_flag = FALSE
  /\ cut = <<>>

Next ==
  \/ Tick
  \/ \E c \in Commands : send_command(c)
  \/ \E env \in EnvAnswers : main_loop(env)
  \/ read_status

Spec == Init /\ [][Next]_vars

----------------------------------------------------------------------------
(* The registry's three functions, called one at a time *)

MaxDuration == 2

(* int(duration) of the durations an operator types. *)
Durations == 0..MaxDuration

(* A call of silence_alert(n, d), as handle_command makes it. *)
silence_alert_step(n, d) ==
  /\ silenced_alerts' = silence_alert(silenced_alerts, n, d, now)
  /\ UNCHANGED <<slotVars, relayVars, now, cmdVars, sweepVars, container_file, pollVars, raceVars, superVars>>

(* A call of unsilence_alert(n). *)
unsilence_alert_step(n) ==
  /\ silenced_alerts' = unsilence_alert(silenced_alerts, n)
  /\ UNCHANGED <<slotVars, relayVars, now, cmdVars, sweepVars, container_file, pollVars, raceVars, superVars>>

(* The calls with the history of silence_alert calls kept. *)
silence_alert_call(n, d) ==
  /\ silence_alert_step(n, d)
  /\ last_silence' = [last_silence EXCEPT ![n] =
                        <<[at |-> now, d |-> d,
                           shortened |-> n \in DOMAIN silenced_alerts
                                         /\ silenced_alerts[n] > now + d]>>]
  /\ ret' = <<>>

unsilence_alert_call(n) ==
  /\ unsilence_alert_step(n)
  /\ last_silence' = [last_silence EXCEPT ![n] = <<>>]
  /\ ret' = <<>>

(* A call of is_silenced(n). *)
is_silenced_call(n) ==
  /\ ret' = <<n, is_silenced(silenced_alerts, n, now)>>
  /\ silenced_alerts' = is_silenced_registry(silenced_alerts, n, now)
  /\ UNCHANGED <<slotVars, relayVars, now, last_silence, cmdVars, sweepVars, container_file, pollVars, raceVars, superVars>>

(* A container whose log tail holds an error, and is healthy otherwise. *)
LogsAnError == [Healthy EXCEPT !.logs = ErrorLog]

(* A call of check_container_logs for such a container named n: the lookup of
   lines 94-100 and, unless it returns at line 97, the scan.  The value kept is
   whether it returned without an alert, which is at line 97. *)
check_container_logs_call(n) ==
  LET out == check_container_logs(n, LogsAnError, silenced_alerts, now) IN
  /\ ret' = <<n, out.alerts = <<>> >>
  /\ silenced_alerts' = out.reg
  /\ UNCHANGED <<slotVars, relayVars, now, last_silence, cmdVars, sweepVars, container_file, pollVars, raceVars, superVars>>

NextRegistry ==
  \/ Tick
  \/ \E n \in Names, d \in Durations : silence_alert_call(n, d)
  \/ \E n \in Names : unsilence_alert_call(n)
  \/ \E n \in Names : is_silenced_call(n)
  \/ \E n \in Names : check_container_logs_call(n)

SpecRegistry == Init /\ [][NextRegistry]_vars

----------------------------------------------------------------------------
(* The sweep thread, with the registry's functions called as the command
   thread calls them *)

(* The command thread's calls, the history left alone. *)
silence_alert_quiet(n, d) == silence_alert_step(n, d) /\ UNCHANGED <<last_silence, ret>>

unsilence_alert_quiet(n) == unsilence_alert_step(n) /\ UNCHANGED <<last_silence, ret>>

(* In the sweeps of the containers every disk is nearly full. *)
FullDisks == {[d \in KeptDevices |-> 95]}

NextSweep ==
  \/ Tick
  \/ \E n \in Names, d \in Durations : silence_alert_quiet(n, d)
  \/ \E n \in Names : unsilence_alert_quiet(n)
  \/ \E list \in ContainerLists : sweep_start(list)
  \/ sweep_start_fails
  \/ \E sc \in Scenarios : sweep_container(sc)
  \/ \E usage \in FullDisks : sweep_disk(usage)
  \/ relay_round

SpecSweep == Init /\ [][NextSweep]_vars

----------------------------------------------------------------------------
(* The sweeps of a host that runs the one container web, within one minute *)

NextChecks ==
  \/ \E d \in Durations : silence_alert_quiet("web", d)
  \/ unsilence_alert_quiet("web")
  \/ sweep_start(<<"web">>)
  \/ \E sc \in CheckScenarios : sweep_container(sc)
  \/ \E usage \in FullDisks : sweep_disk(usage)
  \/ relay_round

SpecChecks == Init /\ [][NextChecks]_vars

----------------------------------------------------------------------------
(* The sweeps of a host that runs no container: the disk check alone *)

NextDisk ==
  \/ Tick
  \/ sweep_start(<<>>)
  \/ sweep_start_fails
  \/ \E usage \in DiskUsages : sweep_disk(usage)

SpecDisk == Init /\ [][NextDisk]_vars

----------------------------------------------------------------------------
(* The command file, system call by system call: send_command's open
   (which creates or truncates the file) and close (which writes the buffered
   text), against read_command's exists test, read and remove. *)

(* The commands sent in the stepwise model. *)
SlotCommands ==
  {<<"silence", SP, "web", SP, "1">>, <<"unsilence", SP, "web">>, <<"status">>}

(* send_command, line 74: open(COMMAND_FILE, 'w'). *)
send_open(c) ==
  /\ wr_pc = "idle"
  /\ wr_pc' = "open"
  /\ wr_cmd' = c
  /\ wr_linked' = TRUE
  /\ command_file' = << <<>> >>
  /\ UNCHANGED <<now, regVars, status_file, main_alive, command, sweepVars,
                 container_file, rd_pc, relayVars, pollVars, raceVars, superVars>>

(* send_command, lines 75-76: the text reaches the file when the with block
   closes it; a file removed since the open is written to without a name. *)
send_close ==
  /\ wr_pc = "open"
  /\ wr_pc' = "idle"
  /\ wr_cmd' = <<>>
  /\ wr_linked' = FALSE
  /\ command_file' = IF wr_linked THEN <<wr_cmd>> ELSE command_file
  /\ UNCHANGED <<now, regVars, status_file, main_alive, command, sweepVars,
                 container_file, rd_pc, relayVars, pollVars, raceVars, superVars>>

(* read_command, line 237: os.path.exists. *)
poll_exists ==
  /\ main_alive
  /\ rd_pc = "idle"
  /\ IF command_file = <<>>
     THEN command' = read_command(command_file).value /\ rd_pc' = "idle"
     ELSE command' = command /\ rd_pc' = "read"
  /\ UNCHANGED <<now, regVars, command_file, status_file, main_alive, sweepVars,
                 container_file, wr_pc, wr_cmd, wr_linked, relayVars, pollVars, raceVars, superVars>>

(* read_command, lines 238-239: open, read, strip. *)
poll_read ==
  /\ rd_pc = "read"
  /\ rd_pc' = "remove"
  /\ command' = read_command(command_file).value
  /\ UNCHANGED <<now, regVars, command_file, status_file, main_alive, sweepVars,
                 container_file, wr_pc, wr_cmd, wr_linked, relayVars, pollVars, raceVars, superVars>>

(* read_command, line 240: os.remove. *)
poll_remove ==
  /\ rd_pc = "remove"
  /\ rd_pc' = "handle"
  /\ command_file' = read_command(command_file).file
  /\ wr_linked' = FALSE
  /\ UNCHANGED <<now, regVars, status_file, main_alive, command, sweepVars,
                 container_file, wr_pc, wr_cmd, relayVars, pollVars, raceVars, superVars>>

(* main(), lines 339-340: handle_command when the command is not empty. *)
poll_handle(env) ==
  /\ rd_pc = "handle"
  /\ rd_pc' = "idle"
  /\ IF command # <<>> /\ command[1] # <<>>
     THEN LET out == handle_command(command[1], silenced_alerts, now, env) IN
          /\ main_alive' = ~out.raised
          /\ silenced_alerts' = out.reg
          /\ status_file' = IF out.writes = <<>> THEN status_file
                            ELSE <<out.writes[Len(out.writes)]>>
     ELSE UNCHANGED <<main_alive, silenced_alerts, status_file>>
  /\ UNCHANGED <<now, last_silence, ret, command_file, command, sweepVars,
                 container_file, wr_pc, wr_cmd, wr_linked, relayVars, pollVars, raceVars, superVars>>

NextSlot ==
  \/ \E c \in SlotCommands : send_open(c)
  \/ send_close
  \/ poll_exists
  \/ poll_read
  \/ poll_remove
  \/ \E env \in EnvAnswers : poll_handle(env)
  \/ read_status

SpecSlot == Init /\ [][NextSlot]_vars

----------------------------------------------------------------------------
(* The alert log, system call by system call: write_container_logs' open
   (which creates the file when there is none) and close (which appends the
   buffered line), against the relay's exists test, read, remove and send. *)

MaxAlerts == 3

(* The lines the checks append. *)
AlertLines == {Record("web", "CPU Threshold Too High"), Record("db", "Errors in Log")}

(* The lines of the alert log. *)
Lines(file) == IF file = <<>> THEN <<>> ELSE file[1]

(* write_container_logs, line 256: open(CONTAINER_FILE, 'a'). *)
append_open(rec) ==
  /\ ap_pc = "idle"
  /\ appended < MaxAlerts
  /\ ap_pc' = "open"
  /\ ap_rec' = rec
  /\ ap_linked' = TRUE
  /\ container_file' = <<Lines(container_file)>>
  /\ UNCHANGED <<now, regVars, cmdVars, sweepVars, slotVars,
                 relay_pc, relay_logs, appended, forwarded, pollVars, raceVars, superVars>>

(* write_container_logs, lines 257-258: the line reaches the file when the
   with block closes it; a file removed since the open is written to without
   a name. *)
append_close ==
  /\ ap_pc = "open"
  /\ ap_pc' = "idle"
  /\ ap_rec' = <<>>
  /\ ap_linked' = FALSE
  /\ container_file' = IF ap_linked THEN <<Lines(container_file) \o <<ap_rec>> >>
                       ELSE container_file
  /\ appended' = appended + 1
  /\ UNCHANGED <<now, regVars, cmdVars, sweepVars, slotVars,
                 relay_pc, relay_logs, forwarded, pollVars, raceVars, superVars>>

(* check_and_send_container_logs, line 169: os.path.exists. *)
relay_exists ==
  /\ relay_pc = "idle"
  /\ container_file # <<>>
  /\ relay_pc' = "read"
  /\ UNCHANGED <<now, regVars, cmdVars, sweepVars, slotVars, container_file,
                 ap_pc, ap_rec, ap_linked, relay_logs, appended, forwarded, pollVars, raceVars, superVars>>

(* check_and_send_container_logs, lines 170-171: open, read, strip. *)
relay_read ==
  /\ relay_pc = "read"
  /\ relay_pc' = "remove"
  /\ relay_logs' = Lines(container_file)
  /\ UNCHANGED <<now, regVars, cmdVars, sweepVars, slotVars, container_file,
                 ap_pc, ap_rec, ap_linked, appended, forwarded, pollVars, raceVars, superVars>>

(* check_and_send_container_logs, line 172: os.remove. *)
relay_remove ==
  /\ relay_pc = "remove"
  /\ relay_pc' = "send"
  /\ container_file' = <<>>
  /\ ap_linked' = FALSE
  /\ UNCHANGED <<now, regVars, cmdVars, sweepVars, slotVars,
                 ap_pc, ap_rec, relay_logs, appended, forwarded, pollVars, raceVars, superVars>>

(* check_and_send_container_logs, lines 173-175: one chat message with the
   lines read, when there are any. *)
relay_send ==
  /\ relay_pc = "send"
  /\ relay_pc' = "idle"
  /\ forwarded' = forwarded + Len(relay_logs)
  /\ relay_logs' = <<>>
  /\ UNCHANGED <<now, regVars, cmdVars, sweepVars, slotVars, container_file,
                 ap_pc, ap_rec, ap_linked, appended, pollVars, raceVars, superVars>>

NextRelay ==
  \/ \E rec \in AlertLines : append_open(rec)
  \/ append_close
  \/ relay_exists
  \/ relay_read
  \/ relay_remove
  \/ relay_send

SpecRelay == Init /\ [][NextRelay]_vars

----------------------------------------------------------------------------
(* The status file: the Monitor's write_status calls, one at a time, against
   the Supervisor's handlers and read_status_with_polling.  Here the clock of
   the poll counts seconds. *)

(* read_status_with_polling, line 79: timeout. *)
PollTimeout == 10

(* read_status_with_polling, line 87: time.sleep(5). *)
PollInterval == 5

(* The seconds a time.sleep(5) may last beyond the five. *)
MaxOversleep == 1

(* The text of a report, as write_status puts it in the file: the message,
   and the newline that ends the last line of the status command's list.  An
   unknown command has the empty text. *)
StatusText(r) ==
  IF r.kind = "" THEN <<>>
  ELSE IF r.kind = "silenced_list" THEN <<r.kind, NL>>
  ELSE <<r.kind>>

(* What read_status_with_polling returns: the report it found with the text
   read from the file, and the command whose handling wrote it. *)
PollValue(r, text, cmd) == [report |-> r, text |-> text, cmd |-> cmd]

(* "Failed to get status: Timeout" *)
Sentinel ==
  PollValue(Report("timeout", "", 0, {}), <<"Failed to get status: Timeout">>, <<>>)

(* A plausible slip: the text is returned as it is in the file. *)
read_status_raw(file, cmd) == PollValue(file[1], StatusText(file[1]), cmd)

(* read_status_with_polling, lines 83-86: f.read().strip() of a file that exists. *)
read_status_file(file, cmd) == PollValue(file[1], Strip(StatusText(file[1])), cmd)

(* The commands sent in the dialogue. *)
DialogCommands ==
  {<<"silence", SP, "web", SP, "1">>, <<"unsilence", SP, "web">>} \cup QueryCommands

(* The handlers that sleep five seconds between send_command and the poll. *)
SleepsFirst(c) == c \in {<<"status">>, <<"disk_usage">>}

(* A handler of the Supervisor: send_command, and for a query the way to
   read_status_with_polling. *)
handler_send(c) ==
  /\ poll_pc \in {"idle", "done"}
  /\ command_file' = <<c>>
  /\ poll_cmd' = c
  /\ poll_result' = <<>>
  /\ poll_elapsed' = 0
  /\ poll_pc' = IF c \notin QueryCommands THEN "idle"
                ELSE IF SleepsFirst(c) THEN "wait" ELSE "call"
  /\ UNCHANGED <<now, regVars, status_file, main_alive, command, sweepVars,
                 container_file, slotVars, relayVars, pending, status_cmd, raceVars, superVars>>

(* handle_status, handle_disk_usage: time.sleep(5). *)
handler_sleep ==
  /\ poll_pc = "wait"
  /\ poll_pc' = "call"
  /\ UNCHANGED <<now, regVars, cmdVars, sweepVars, container_file, slotVars, relayVars,
                 pending, status_cmd, poll_elapsed, poll_result, poll_cmd, raceVars, superVars>>

(* read_status_with_polling, lines 79-80: start_time = time.time(). *)
poll_begin ==
  /\ poll_pc = "call"
  /\ poll_pc' = "poll"
  /\ poll_elapsed' = 0
  /\ UNCHANGED <<now, regVars, cmdVars, sweepVars, container_file, slotVars, relayVars,
                 pending, status_cmd, poll_result, poll_cmd, raceVars, superVars>>

(* read_status_with_polling, lines 81-86: the loop test holds; a file that
   exists is read, removed and returned. *)
poll_check ==
  /\ poll_pc = "poll"
  /\ poll_elapsed < PollTimeout
  /\ IF status_file # <<>>
     THEN /\ poll_result' = <<read_status_file(status_file, status_cmd)>>
          /\ status_file' = <<>>
          /\ poll_pc' = "done"
     ELSE /\ poll_pc' = "sleep"
          /\ UNCHANGED <<poll_result, status_file>>
  /\ UNCHANGED <<now, regVars, command_file, main_alive, command, sweepVars,
                 container_file, slotVars, relayVars, pending, status_cmd,
                 poll_elapsed, poll_cmd, raceVars, superVars>>

(* read_status_with_polling, line 87: time.sleep(5). *)
poll_sleep(extra) ==
  /\ poll_pc = "sleep"
  /\ poll_pc' = "poll"
  /\ poll_elapsed' = poll_elapsed + PollInterval + extra
  /\ UNCHANGED <<now, regVars, cmdVars, sweepVars, container_file, slotVars, relayVars,
                 pending, status_cmd, poll_result, poll_cmd, raceVars, superVars>>

(* read_status_with_polling, lines 81 and 88: the loop test fails. *)
poll_timeout ==
  /\ poll_pc = "poll"
  /\ poll_elapsed >= PollTimeout
  /\ poll_pc' = "done"
  /\ poll_result' = <<Sentinel>>
  /\ UNCHANGED <<now, regVars, cmdVars, sweepVars, container_file, slotVars, relayVars,
                 pending, status_cmd, poll_elapsed, poll_cmd, raceVars, superVars>>

(* One iteration of main()'s loop up to the first write_status of
   handle_command. *)
monitor_take(env) ==
  /\ main_alive
  /\ pending = <<>>
  /\ command' = read_command(command_file).value
  /\ command_file' = read_command(command_file).file
  /\ IF command' # <<>> /\ command'[1] # <<>>
     THEN LET out == handle_command(command'[1], silenced_alerts, now, env) IN
          /\ main_alive' = ~out.raised
          /\ silenced_alerts' = out.reg
          /\ pending' = out.writes
     ELSE UNCHANGED <<main_alive, silenced_alerts, pending>>
  /\ UNCHANGED <<now, last_silence, ret, status_file, sweepVars, container_file,
                 slotVars, relayVars, status_cmd, poll_pc, poll_elapsed, poll_result,
                 poll_cmd, raceVars, superVars>>

(* write_status: the next write of the command being handled. *)
monitor_write ==
  /\ pending # <<>>
  /\ status_file' = <<Head(pending)>>
  /\ status_cmd' = command
  /\ pending' = Tail(pending)
  /\ UNCHANGED <<now, regVars, command_file, main_alive, command, sweepVars,
                 container_file, slotVars, relayVars, poll_pc, poll_elapsed,
                 poll_result, poll_cmd, raceVars, superVars>>

(* The steps of read_status_with_polling once it is called. *)
PollStep ==
  \/ poll_begin
  \/ poll_check
  \/ \E extra \in 0..MaxOversleep : poll_sleep(extra)
  \/ poll_timeout

NextDialog ==
  \/ \E c \in DialogCommands : handler_send(c)
  \/ handler_sleep
  \/ poll_begin
  \/ poll_check
  \/ \E extra \in 0..MaxOversleep : poll_sleep(extra)
  \/ poll_timeout
  \/ \E env \in EnvAnswers : monitor_take(env)
  \/ monitor_write

SpecDialog == Init /\ [][NextDialog]_vars

(* The Supervisor's thread runs on: a call of read_status_with_polling takes
   its next step. *)
FairSpecDialog == SpecDialog /\ WF_vars(PollStep)

----------------------------------------------------------------------------
(* The registry shared by the two threads of the Monitor, one dictionary
   operation at a time: the sweep thread's lookup in check_container_logs
   against the command thread's silence_alert, unsilence_alert and status
   listing.  The interpreter runs one operation on the dictionary at a time
   and may switch threads between any two. *)

otherVars ==
  <<now, last_silence, ret, command_file, status_file, command, sweepVars,
    container_file, slotVars, relayVars, pollVars, superVars>>

(* check_container_logs, line 94: container.name in silenced_alerts. *)
lookup_member(n) ==
  /\ lk_pc = "idle"
  /\ ~lk_raised
  /\ lk_name' = n
  /\ lk_pc' = IF n \in DOMAIN silenced_alerts THEN "expiry" ELSE "idle"
  /\ UNCHANGED <<otherVars, silenced_alerts, main_alive, lk_raised, un_pc, un_name,
                 it_size, it_left>>

(* check_container_logs, line 95: silenced_alerts[container.name] is read and
   compared with now; a key that is gone raises KeyError, which leaves
   check_containers. *)
lookup_expiry ==
  /\ lk_pc = "expiry"
  /\ IF lk_name \notin DOMAIN silenced_alerts
     THEN lk_raised' = TRUE /\ lk_pc' = "idle"
     ELSE /\ lk_raised' = lk_raised
          /\ lk_pc' = IF now < silenced_alerts[lk_name] THEN "idle" ELSE "delete"
  /\ UNCHANGED <<otherVars, silenced_alerts, main_alive, lk_name, un_pc, un_name,
                 it_size, it_left>>

(* check_container_logs, line 100: del silenced_alerts[container.name]. *)
lookup_delete ==
  /\ lk_pc = "delete"
  /\ lk_pc' = "idle"
  /\ IF lk_name \notin DOMAIN silenced_alerts
     THEN lk_raised' = TRUE /\ silenced_alerts' = silenced_alerts
     ELSE /\ lk_raised' = lk_raised
          /\ silenced_alerts' = unsilence_alert(silenced_alerts, lk_name)
  /\ UNCHANGED <<otherVars, main_alive, lk_name, un_pc, un_name, it_size, it_left>>

(* check_containers_periodically catches the error, sleeps and sweeps again. *)
lookup_resume ==
  /\ lk_raised
  /\ lk_raised' = FALSE
  /\ UNCHANGED <<otherVars, silenced_alerts, main_alive, lk_pc, lk_name, un_pc, un_name,
                 it_size, it_left>>

(* handle_command, silence: silence_alert's assignment, line 71. *)
command_silence(n, d) ==
  /\ main_alive
  /\ un_pc = "idle"
  /\ silenced_alerts' = silence_alert(silenced_alerts, n, d, now)
  /\ UNCHANGED <<otherVars, main_alive, lk_pc, lk_name, lk_raised, un_pc, un_name,
                 it_size, it_left>>

(* handle_command, unsilence: unsilence_alert's test, line 75. *)
command_unsilence_member(n) ==
  /\ main_alive
  /\ un_pc = "idle"
  /\ un_name' = n
  /\ un_pc' = IF n \in DOMAIN silenced_alerts THEN "delete" ELSE "idle"
  /\ UNCHANGED <<otherVars, silenced_alerts, main_alive, lk_pc, lk_name, lk_raised,
                 it_size, it_left>>

(* unsilence_alert, line 76: del silenced_alerts[container_name]; a KeyError
   is caught nowhere and ends main()'s loop. *)
command_unsilence_delete ==
  /\ main_alive
  /\ un_pc = "delete"
  /\ un_pc' = "idle"
  /\ IF un_name \notin DOMAIN silenced_alerts
     THEN main_alive' = FALSE /\ silenced_alerts' = silenced_alerts
     ELSE /\ main_alive' = main_alive
          /\ silenced_alerts' = unsilence_alert(silenced_alerts, un_name)
  /\ UNCHANGED <<otherVars, lk_pc, lk_name, lk_raised, un_name, it_size, it_left>>

(* handle_command, status, lines 278-279: len(silenced_alerts) > 0 and the
   start of the iteration over silenced_alerts.items(). *)
command_status_begin ==
  /\ main_alive
  /\ un_pc = "idle"
  /\ DOMAIN silenced_alerts # {}
  /\ un_pc' = "iterate"
  /\ it_size' = Cardinality(DOMAIN silenced_alerts)
  /\ it_left' = DOMAIN silenced_alerts
  /\ UNCHANGED <<otherVars, silenced_alerts, main_alive, lk_pc, lk_name, lk_raised, un_name>>

(* The next item of the iteration, lines 279-281: a dictionary whose size is
   not the one at the start raises RuntimeError, caught nowhere. *)
command_status_next ==
  /\ main_alive
  /\ un_pc = "iterate"
  /\ IF Cardinality(DOMAIN silenced_alerts) # it_size
     THEN main_alive' = FALSE /\ un_pc' = "idle" /\ it_left' = {}
     ELSE /\ main_alive' = main_alive
          /\ IF it_left \cap DOMAIN silenced_alerts = {}
             THEN un_pc' = "idle" /\ it_left' = {}
             ELSE /\ un_pc' = un_pc
                  /\ \E k \in it_left \cap DOMAIN silenced_alerts : it_left' = it_left \ {k}
  /\ UNCHANGED <<otherVars, silenced_alerts, lk_pc, lk_name, lk_raised, un_name, it_size>>

NextRace ==
  \/ \E n \in Names : lookup_member(n)
  \/ lookup_expiry
  \/ lookup_delete
  \/ lookup_resume
  \/ \E n \in Names, d \in Durations : command_silence(n, d)
  \/ \E n \in Names : command_unsilence_member(n)
  \/ command_unsilence_delete
  \/ command_status_begin
  \/ command_status_next

SpecRace == Init /\ [][NextRace]_vars

----------------------------------------------------------------------------
(* The Supervisor's start and shutdown commands and the life of the Monitor
   child process.  The Supervisor handles one command after the other; the
   child runs beside it.  A child is "starting" from Popen to the first line
   of its main(), "running" while its two loops turn, and "exited" after. *)

(* The number of children the Supervisor spawns in a run. *)
MaxSpawns == 3

(* monitoring_process is None or monitoring_process.poll() is not None *)
NoChildRuns ==
  monitoring_process = <<>> \/ procs[monitoring_process[1]] = "exited"

(* The children that have not exited. *)
Live == {p \in DOMAIN procs : procs[p] # "exited"}

(* What the two handlers leave alone. *)
monitorVars ==
  <<now, regVars, cmdVars, sweepVars, container_file, slotVars, relayVars, pollVars,
    raceVars>>

(* subprocess.Popen(['python', 'monitor_docker.py']), and the message. *)
spawn ==
  /\ Len(procs) < MaxSpawns
  /\ procs' = Append(procs, "starting")
  /\ monitoring_process' = <<Len(procs) + 1>>
  /\ bot_said' = "Monitoring script started."

(* A plausible slip: start_monitoring without the test of the old child. *)
start_monitoring_unchecked ==
  /\ stop_pc = "idle"
  /\ spawn
  /\ UNCHANGED <<monitorVars, signalled, stop_pc, shutdown_flag, cut>>

(* start_monitoring, called by main() and by handle_start. *)
start_monitoring ==
  /\ stop_pc = "idle"
  /\ IF NoChildRuns
     THEN spawn
     ELSE /\ bot_said' = "Monitoring script is already running."
          /\ UNCHANGED <<procs, monitoring_process>>
  /\ UNCHANGED <<monitorVars, signalled, stop_pc, shutdown_flag, cut>>

(* stop_monitoring, lines 63-64: the test, and terminate(), which sends
   SIGTERM to the child; lines 69-71 when no child runs. *)
stop_terminate ==
  /\ stop_pc = "idle"
  /\ IF ~NoChildRuns
     THEN /\ signalled' = signalled \cup {monitoring_process[1]}
          /\ stop_pc' = "wait"
          /\ UNCHANGED bot_said
     ELSE /\ bot_said' = "Monitoring script is not running."
          /\ UNCHANGED <<signalled, stop_pc>>
  /\ UNCHANGED <<monitorVars, monitoring_process, procs, shutdown_flag, cut>>

(* stop_monitoring, lines 65-68: wait() returns when the child has exited;
   then the message, and the handle is forgotten. *)
stop_wait ==
  /\ stop_pc = "wait"
  /\ procs[monitoring_process[1]] = "exited"
  /\ bot_said' = "Monitoring script stopped."
  /\ monitoring_process' = <<>>
  /\ stop_pc' = "idle"
  /\ UNCHANGED <<monitorVars, procs, signalled, shutdown_flag, cut>>

(* monitor_docker.py, lines 14-16 and 28: the child raises before its main()
   when the .env file or the docker socket is missing, and exits. *)
monitor_boot_fails(p) ==
  /\ p \in DOMAIN procs
  /\ procs[p] = "starting"
  /\ procs' = [procs EXCEPT ![p] = "exited"]
  /\ signalled' = signalled \ {p}
  /\ UNCHANGED <<monitorVars, monitoring_process, stop_pc, bot_said, shutdown_flag, cut>>

(* monitor_docker.py, main(), lines 329-334: a new process with an empty
   registry; initialize_files removes the command and the status file; the
   sweep thread is started. *)
monitor_boot(p) ==
  /\ p \in DOMAIN procs
  /\ procs[p] = "starting"
  /\ procs' = [procs EXCEPT ![p] = "running"]
  /\ silenced_alerts' = [n \in {} |-> 0]
  /\ last_logged_usage' = [d \in {} |-> 0]
  /\ command_file' = <<>>
  /\ status_file' = <<>>
  /\ main_alive' = TRUE
  /\ command' = <<>>
  /\ sweep_list' = <<>>
  /\ sweep_i' = 0
  /\ alerts' = <<>>
  /\ ran' = {}
  /\ rd_pc' = "idle"
  /\ wr_linked' = FALSE
  /\ UNCHANGED <<now, last_silence, ret, container_file, wr_pc, wr_cmd, relayVars,
                 pollVars, raceVars, monitoring_process, signalled, stop_pc, bot_said,
                 shutdown_flag, cut>>

(* The SIGTERM reaches the child.  monitor_docker.py installs no handler for
   it and sets shutdown_flag nowhere: the process ends where it stands. *)
monitor_sigterm(p) ==
  /\ p \in signalled
  /\ procs[p] # "exited"
  /\ procs' = [procs EXCEPT ![p] = "exited"]
  /\ signalled' = signalled \ {p}
  /\ cut' = IF procs[p] = "running" THEN <<[sweep |-> sweep_i, rd |-> rd_pc]>>
            ELSE <<[sweep |-> 0, rd |-> "idle"]>>
  /\ UNCHANGED <<monitorVars, monitoring_process, stop_pc, bot_said, shutdown_flag>>

(* A child is in its loops. *)
MonitorRuns == \E p \in DOMAIN procs : procs[p] = "running"

(* check_containers_periodically, line 321: the flag is tested before each
   sweep; the sweep then runs container by container to the disk check. *)
periodic_sweep_start == MonitorRuns /\ ~shutdown_flag /\ sweep_start(<<"web">>)

periodic_sweep_container == MonitorRuns /\ sweep_container(Healthy)

periodic_sweep_disk == MonitorRuns /\ \E usage \in FullDisks : sweep_disk(usage)

(* main(), line 337: the flag is tested before each read of the command
   file; the iteration then reads, removes and handles. *)
main_poll_exists == MonitorRuns /\ ~shutdown_flag /\ poll_exists

main_poll_read == MonitorRuns /\ poll_read

main_poll_remove == MonitorRuns /\ poll_remove

main_poll_handle == MonitorRuns /\ \E env \in EnvAnswers : poll_handle(env)

NextSuper ==
  \/ start_monitoring
  \/ stop_terminate
  \/ stop_wait
  \/ \E p \in 1..MaxSpawns : monitor_boot_fails(p)
  \/ \E p \in 1..MaxSpawns : monitor_boot(p)
  \/ \E p \in 1..MaxSpawns : monitor_sigterm(p)
  \/ periodic_sweep_start
  \/ periodic_sweep_container
  \/ periodic_sweep_disk
  \/ send_command(<<"status">>)
  \/ main_poll_exists
  \/ main_poll_read
  \/ main_poll_remove
  \/ main_poll_handle

SpecSuper == Init /\ [][NextSuper]_vars

----------------------------------------------------------------------------
(* Properties of the registry's functions (SpecRegistry) *)

(* C1: for every name n and duration d > 0, a lookup of n made at the time of
   silence(n, d) returns true, and a lookup made once d minutes have passed
   since then returns false and leaves n out of the registry. *)
C1_SilenceThenExpire ==
  [][\A n \in Names :
       (is_silenced_call(n) /\ last_silence[n] # <<>> /\ last_silence[n][1].d > 0) =>
         LET s == last_silence[n][1] IN
         /\ now = s.at => ret' = <<n, TRUE>>
         /\ now >= s.at + s.d => ret' = <<n, FALSE>> /\ n \notin DOMAIN silenced_alerts'
    ]_vars

(* A lookup of a name silenced for d > 0 minutes, made after the d minutes,
   has returned false and the entry is gone. *)
C1_Witness ==
  \E n \in Names :
    /\ last_silence[n] # <<>>
    /\ last_silence[n][1].d > 0
    /\ now >= last_silence[n][1].at + last_silence[n][1].d
    /\ ret = <<n, FALSE>>
    /\ n \notin DOMAIN silenced_alerts

----------------------------------------------------------------------------
(* Properties of the command loop (Spec) *)

(* A step of main()'s loop. *)
MainLoopStep == \E env \in EnvAnswers : main_loop(env)

(* A step of main()'s loop that hands a command to handle_command. *)
HandlesCommand == MainLoopStep /\ command' # <<>> /\ command'[1] # <<>>

(* C3: a read-and-clear that follows the write of c returns exactly c and
   leaves the slot empty, and a read-and-clear of an empty slot returns None:
   the command is delivered once. *)
C3_CommandRoundTrip ==
  [][MainLoopStep => command' = command_file /\ command_file' = <<>>]_vars

(* The command "silence web 1" has been written, read back and cleared. *)
C3_Witness ==
  /\ command = << <<"silence", SP, "web", SP, "1">> >>
  /\ command_file = <<>>

(* C6: handling any command the loop takes from the mailbox ends with a write
   to the status file. *)
C6_DispatchWritesStatus ==
  [][HandlesCommand => main_alive' /\ status_file' # <<>>]_vars

(* A command whose words are not of the shape its verb expects. *)
Malformed(cmd) ==
  \/ StartsWith(cmd, "silence") /\ (Len(Split(cmd)) # 3 \/ ~IsNumeral(Split(cmd)[3]))
  \/ StartsWith(cmd, "unsilence") /\ Len(Split(cmd)) # 2

(* C7: a malformed command leaves the registry as it was and the command loop
   running. *)
C7_MalformedDiscarded ==
  [][(HandlesCommand /\ Malformed(command'[1])) =>
        silenced_alerts' = silenced_alerts /\ main_alive']_vars

----------------------------------------------------------------------------
(* Properties of the sweep (SpecSweep, SpecDisk) *)

(* The container the next sweep_container step checks. *)
Current == sweep_list[sweep_i]

(* An entry for the name exists and has not expired. *)
Silenced(name) == name \in DOMAIN silenced_alerts /\ now < silenced_alerts[name]

(* C2: while a container is silenced, the sweep's checks of it append no
   line to the alert log, whichever check finds an anomaly. *)
C2_SilencedAppendsNothing ==
  [][\A sc \in Scenarios :
       (sweep_container(sc) /\ Silenced(Current)) => container_file' = container_file]_vars

(* C8: a disk check that finds a partition above the disk threshold calls
   send_alert, whatever the cache holds. *)
C8_FullDiskAlerts ==
  [][\A usage \in DiskUsages :
       (sweep_disk(usage) /\ \E d \in KeptDevices : usage[d] > DISK_THRESHOLD)
         => alerts' # <<>>]_vars

(* A call of the runtime raises while the container is checked. *)
Raises(sc, silenced) ==
  \/ sc.reload # "ok"
  \/ /\ sc.reload = "ok"
     /\ sc.status = "exited"
     /\ sc.logs_fault # "ok"
  \/ /\ sc.reload = "ok"
     /\ sc.status # "exited"
     /\ \/ sc.logs_fault # "ok" /\ ~silenced
        \/ sc.stats_fault # "ok"
        \/ sc.image_fault # "ok"

(* C9: an error of the runtime while one container is checked is reported by
   an alert for that container, and the sweep goes on to the next container
   or, after the last, to the disk check. *)
C9_RuntimeErrorAlertedSweepGoesOn ==
  [][\A sc \in Scenarios :
       (sweep_container(sc) /\ Raises(sc, Silenced(Current))) =>
         /\ \E k \in 1..Len(alerts') : alerts'[k].name = Current
         /\ sweep_i' = sweep_i + 1]_vars

(* What the exited branch leaves behind: one alert with "has stopped" and the
   log tail, and no check run: no line appended, no lookup in the registry. *)
ExitedOutcome(sc) ==
  /\ alerts' = <<Alert(Current, "has_stopped", sc.logs)>>
  /\ ran' = {}
  /\ container_file' = container_file
  /\ silenced_alerts' = silenced_alerts

(* C10 as stated: every container whose reloaded status is "exited" gets
   exactly one alert, with "has stopped" and the log tail, and none of the
   four checks. *)
C10_ExitedOneAlert ==
  [][\A sc \in Scenarios :
       (sc.reload = "ok" /\ sc.status = "exited" /\ sweep_container(sc))
         => ExitedOutcome(sc)]_vars

(* C10, amended: a container whose reloaded status is "exited" and whose log
   tail the runtime returns without an error gets exactly one alert, with
   "has stopped" and the log tail, and none of the four checks. *)
C10_ExitedOneAlertWhenTailFetched ==
  [][\A sc \in Scenarios :
       (sc.reload = "ok" /\ sc.status = "exited" /\ sc.logs_fault = "ok"
          /\ sweep_container(sc))
         => ExitedOutcome(sc)]_vars

(* The sweep has just found db exited: one alert with its log tail, no check. *)
C10_Witness ==
  /\ sweep_list = <<"web", "db">>
  /\ sweep_i = 3
  /\ alerts = <<Alert("db", "has_stopped", ErrorLog)>>
  /\ ran = {}

----------------------------------------------------------------------------
(* Properties of the files, system call by system call (SpecSlot, SpecRelay) *)

(* C4: whatever the interleaving, the reader never reads an empty or partial
   text in place of a command, the file it removes holds the command it read,
   and a command being written lands in the file: no written command is lost. *)
C4_CommandNeverTornOrLost ==
  [][/\ (rd_pc = "read" /\ rd_pc' = "remove") => command' \in {<<c>> : c \in SlotCommands}
     /\ (rd_pc = "remove" /\ rd_pc' = "handle") => command_file = command
     /\ (wr_pc = "open" /\ wr_pc' = "idle") => wr_linked]_vars

(* The alert lines on their way to the chat: in the log, or read and removed
   but not yet sent. *)
InFlight ==
  Len(Lines(container_file)) + (IF relay_pc = "send" THEN Len(relay_logs) ELSE 0)

(* C5: every line appended to the alert log is forwarded to the chat once:
   the lines appended are those forwarded and those still on their way. *)
C5_EveryAlertForwardedOnce ==
  (ap_pc = "idle") => appended = forwarded + InFlight

----------------------------------------------------------------------------
(* Properties of the status file (SpecDialog, FairSpecDialog) *)

(* A poll of read_status_with_polling that finds the status file. *)
PollFinds == poll_check /\ status_file # <<>>

(* C11 as stated: a poll that finds a status returns that status, as it is in
   the file, and clears the slot; a call that times out returns the sentinel
   with the slot empty; every call returns. *)
C11_PollReturnsStatusOrTimeout ==
  /\ [][PollFinds =>
          /\ poll_result' # <<>>
          /\ poll_result'[1].report = status_file[1]
          /\ poll_result'[1].text = StatusText(status_file[1])
          /\ status_file' = <<>>]_vars
  /\ [][poll_timeout => poll_result' = <<Sentinel>> /\ status_file' = <<>>]_vars
  /\ (poll_pc = "call" ~> poll_pc = "done")

(* C11, amended: a poll made before the 10 seconds have elapsed that finds a
   status returns it without its leading and trailing whitespace and clears the
   slot; a call that finds no status at any poll returns the sentinel once the
   10 seconds have elapsed and does not touch the slot, which holds whatever
   the Monitor wrote after the last poll; every call returns. *)
C11_PollReturnsStrippedStatusOrTimeout ==
  /\ [][PollFinds =>
          /\ poll_elapsed < PollTimeout
          /\ poll_result' # <<>>
          /\ poll_result'[1].report = status_file[1]
          /\ poll_result'[1].text = Strip(StatusText(status_file[1]))
          /\ status_file' = <<>>]_vars
  /\ [][(poll_pc # "done" /\ poll_pc' = "done" /\ ~PollFinds) =>
          /\ poll_elapsed >= PollTimeout
          /\ poll_result' = <<Sentinel>>
          /\ status_file' = status_file]_vars
  /\ (poll_pc = "call" ~> poll_pc = "done")

(* The /status handler's poll has returned the list of silenced containers,
   without the newline that ends it in the file, and the slot is empty. *)
C11_Witness ==
  /\ poll_pc = "done"
  /\ poll_cmd = <<"status">>
  /\ poll_result # <<>>
  /\ poll_result[1].report.kind = "silenced_list"
  /\ poll_result[1].text = <<"silenced_list">>
  /\ status_file = <<>>

----------------------------------------------------------------------------
(* Properties of the status command (Spec) *)

(* C12: the report of the status command has a line for an entry only if the
   entry is active when the command is handled (now < expiry), so every
   remaining time listed is above zero. *)
C12_StatusListsOnlyActive ==
  [][(HandlesCommand /\ command'[1] = <<"status">>) =>
       /\ status_file' # <<>>
       /\ \A line \in status_file'[1].items :
            /\ line[1] \in DOMAIN silenced_alerts
            /\ now < silenced_alerts[line[1]]
            /\ line[2] > 0]_vars

(* A step of main()'s loop that handles the command "unsilence n". *)
HandlesUnsilence(n) == HandlesCommand /\ command'[1] = <<"unsilence", SP, n>>

(* C13: unsilence of a name with no entry reports "was not silenced", raises
   nothing and leaves the registry as it was; unsilence of a name with an entry
   removes that entry and leaves every other entry as it was. *)
C13_UnsilenceAbsentOrPresent ==
  [][\A n \in Names : HandlesUnsilence(n) =>
       /\ main_alive'
       /\ IF n \in DOMAIN silenced_alerts
          THEN /\ status_file' = <<Report("unsilenced", n, 0, {})>>
               /\ DOMAIN silenced_alerts' = DOMAIN silenced_alerts \ {n}
          ELSE /\ status_file' = <<Report("was_not_silenced", n, 0, {})>>
               /\ DOMAIN silenced_alerts' = DOMAIN silenced_alerts
       /\ \A m \in DOMAIN silenced_alerts' : silenced_alerts'[m] = silenced_alerts[m]]_vars

(* "unsilence web" has been handled while only db was silenced: the report is
   "was not silenced", db's entry is still there and the loop runs. *)
C13_Witness ==
  /\ command = << <<"unsilence", SP, "web">> >>
  /\ status_file = <<Report("was_not_silenced", "web", 0, {})>>
  /\ DOMAIN silenced_alerts = {"db"}
  /\ main_alive

----------------------------------------------------------------------------
(* Properties of the lookup and of silence_alert (SpecRegistry) *)

(* A lookup of n: a call of is_silenced, or the lookup at the start of
   check_container_logs. *)
Lookup(n) == is_silenced_call(n) \/ check_container_logs_call(n)

(* The entries of every name but n are as they were. *)
OthersUnchanged(n) ==
  /\ DOMAIN silenced_alerts' \ {n} = DOMAIN silenced_alerts \ {n}
  /\ \A m \in DOMAIN silenced_alerts \ {n} : silenced_alerts'[m] = silenced_alerts[m]

(* C14: a lookup of n returns true and leaves the registry as it was when n
   has an entry with now < expiry; it returns false and deletes n's entry
   alone when the entry has expired; it returns false and changes nothing
   when n has no entry. *)
C14_LookupFrame ==
  [][\A n \in Names : Lookup(n) =>
       IF n \in DOMAIN silenced_alerts /\ now < silenced_alerts[n]
       THEN ret' = <<n, TRUE>> /\ silenced_alerts' = silenced_alerts
       ELSE IF n \in DOMAIN silenced_alerts
       THEN /\ ret' = <<n, FALSE>>
            /\ n \notin DOMAIN silenced_alerts'
            /\ OthersUnchanged(n)
       ELSE ret' = <<n, FALSE>> /\ silenced_alerts' = silenced_alerts]_vars

(* A lookup of web has returned false and web's entry is gone, while db's
   entry, expired as well, is still in the registry. *)
C14_Witness ==
  /\ ret = <<"web", FALSE>>
  /\ last_silence["web"] # <<>>
  /\ "web" \notin DOMAIN silenced_alerts
  /\ "db" \in DOMAIN silenced_alerts
  /\ silenced_alerts["db"] <= now

(* C15: silence(n, m) overwrites: after the call the registry has n with the
   expiry now + m, whatever entry n had before, a longer one included, and the
   entries of the other names are as they were. *)
C15_SilenceOverwrites ==
  [][\A n \in Names, d \in Durations : silence_alert_call(n, d) =>
       /\ n \in DOMAIN silenced_alerts'
       /\ silenced_alerts'[n] = now + d
       /\ OthersUnchanged(n)]_vars

(* web was silenced until later than minute 1 and has been silenced again,
   for one minute at minute 0: its expiry is now 1, and db's entry is still
   there. *)
C15_Witness ==
  /\ last_silence["web"] = <<[at |-> 0, d |-> 1, shortened |-> TRUE]>>
  /\ "web" \in DOMAIN silenced_alerts
  /\ silenced_alerts["web"] = 1
  /\ "db" \in DOMAIN silenced_alerts

----------------------------------------------------------------------------
(* Properties of the resource check and of the log scanner (SpecChecks) *)

(* The alerts of one kind that the last step sent for a container. *)
AlertsOf(sent, name, kind) ==
  {k \in 1..Len(sent) : sent[k].name = name /\ sent[k].kind = kind}

(* The lines the step appends to the alert log. *)
NewLines ==
  SubSeq(Lines(container_file'), Len(Lines(container_file)) + 1, Len(Lines(container_file')))

(* The lines with one reason that the step appends for a container. *)
NewLinesOf(name, reason) ==
  {k \in 1..Len(NewLines) : NewLines[k] = Record(name, reason)}

(* The step checks a container that is running and whose statistics are
   fetched, with totals that are not zero. *)
ResourcesRead(sc) ==
  /\ sweep_i' # sweep_i
  /\ sc.reload = "ok"
  /\ sc.status # "exited"
  /\ sc.stats_fault = "ok"
  /\ sc.cpu[2] # 0
  /\ sc.mem[2] # 0

(* C16: the percent of a metric is usage / total x 100; in the sweep of one
   container a metric strictly above 90 percent gives exactly one alert, with
   that percent, and one line of the alert log, and a metric at or below 90
   percent gives none. *)
C16_ResourceAlerts ==
  [][\A sc \in CheckScenarios : (ResourcesRead(sc) /\ sweep_container(sc)) =>
       LET cpu == AlertsOf(alerts', Current, "high_cpu")
           mem == AlertsOf(alerts', Current, "high_memory")
       IN
       /\ Cardinality(cpu) = IF sc.cpu[1] * 100 > CPU_THRESHOLD * sc.cpu[2] THEN 1 ELSE 0
       /\ Cardinality(mem) = IF sc.mem[1] * 100 > MEMORY_THRESHOLD * sc.mem[2] THEN 1 ELSE 0
       /\ Cardinality(NewLinesOf(Current, "CPU Threshold Too High")) = Cardinality(cpu)
       /\ Cardinality(NewLinesOf(Current, "Memory Threshold Too High")) = Cardinality(mem)
       /\ \A k \in cpu : alerts'[k].body * sc.cpu[2] = sc.cpu[1] * 10000
       /\ \A k \in mem : alerts'[k].body * sc.mem[2] = sc.mem[1] * 10000]_vars

(* The sweep has checked web with cpu 50 of 100 and memory 950 of 1000: one
   alert, for the memory at 95.00 percent, and one line in the alert log. *)
C16_Witness ==
  /\ sweep_list = <<"web">>
  /\ sweep_i = 2
  /\ alerts = <<Alert("web", "high_memory", 9500)>>
  /\ container_file = << <<Record("web", "Memory Threshold Too High")>> >>

(* The step scans the log tail of a container: it is running, not silenced,
   and the runtime returns the tail. *)
ScanRuns(sc) ==
  /\ sweep_i >= 1
  /\ sweep_i <= Len(sweep_list)
  /\ sweep_i' # sweep_i
  /\ sc.reload = "ok"
  /\ sc.status # "exited"
  /\ sc.logs_fault = "ok"
  /\ ~Silenced(Current)

(* The 100 characters before the match of the p-th error pattern at place i,
   the match, and the 100 characters after it, as far as the text goes. *)
Window(text, p, i) ==
  LET last == i + Len(ERROR_PATTERNS[p]) - 1
  IN [k \in 1..(Min(Len(text), last + ContextWidth) - Max(1, i - ContextWidth) + 1) |->
        text[Max(1, i - ContextWidth) + k - 1]]

(* The matches of the error patterns in a text whose window holds no ignore
   pattern: <<pattern, place>>. *)
SurvivingMatches(text) ==
  {m \in (1..Len(ERROR_PATTERNS)) \X (1..Len(text)) :
     /\ MatchAt(text, ERROR_PATTERNS[m[1]], m[2])
     /\ ~\E q \in 1..Len(IGNORE_PATTERNS) : Search(IGNORE_PATTERNS[q], Window(text, m[1], m[2]))}

(* C17: a match of an error pattern is discarded exactly when its window of
   100 characters on each side holds an ignore pattern, in either case of the
   letters, and every other match gives one alert, with its window, and one
   line of the alert log.  "ERROR: disk full" gives one alert, and none after
   an ignore phrase that lies within the 100 characters. *)
C17_ScanDiscardsByContext ==
  [][\A sc \in CheckScenarios : (ScanRuns(sc) /\ sweep_container(sc)) =>
       LET found == AlertsOf(alerts', Current, "error_in_log")
           kept == SurvivingMatches(sc.logs)
       IN
       /\ Cardinality(found) = Cardinality(kept)
       /\ Cardinality(NewLinesOf(Current, "Errors in Log")) = Cardinality(kept)
       /\ \A k \in found : \E m \in kept : alerts'[k].body = Window(sc.logs, m[1], m[2])
       /\ sc.logs = ErrorLog => Cardinality(found) = 1
       /\ sc.logs \in {IgnoredLog, NearBeforeLog, NearAfterLog} => Cardinality(found) = 0
       /\ sc.logs \in {FarBeforeLog, FarAfterLog} => Cardinality(found) = 1]_vars

(* The sweep has scanned the tail in which the ignore phrase begins 101
   characters before "ERROR": one alert, with the window that leaves out the
   first character of the phrase, and one line in the alert log. *)
C17_Witness ==
  /\ sweep_list = <<"web">>
  /\ sweep_i = 2
  /\ alerts = <<Alert("web", "error_in_log", SubSeq(FarBeforeLog, 2, Len(FarBeforeLog)))>>
  /\ container_file = << <<Record("web", "Errors in Log")>> >>

----------------------------------------------------------------------------
(* Properties of the dialogue over the status file (SpecDialog) *)

(* A query handler's poll has returned a status read from the file. *)
PollReturnedStatus ==
  /\ poll_pc = "done"
  /\ poll_result # <<>>
  /\ poll_result[1].report.kind # "timeout"

(* C18: the status a query handler's poll returns was written by the Monitor
   while it handled the command that handler sent, never while it handled
   another command. *)
C18_PollReturnsOwnReport ==
  PollReturnedStatus => poll_result[1].cmd = <<poll_cmd>>

----------------------------------------------------------------------------
(* Properties of the shared registry (SpecRace) *)

(* C19: under every interleaving no step of either thread reads or deletes
   a key that is absent, no iteration meets a dictionary of another size, and
   so neither thread raises an error because of the registry. *)
C19_RegistrySharedSafely ==
  /\ lk_pc \in {"expiry", "delete"} => lk_name \in DOMAIN silenced_alerts
  /\ un_pc = "delete" => un_name \in DOMAIN silenced_alerts
  /\ un_pc = "iterate" => Cardinality(DOMAIN silenced_alerts) = it_size
  /\ ~lk_raised
  /\ main_alive

----------------------------------------------------------------------------
(* Properties of the disk check's cache (SpecDisk) *)

(* C20: a partition in the cache is logged, and its cached percent replaced,
   exactly when the percent has moved by at least 5 points since the value
   cached; under 5 points the cache keeps its value; a partition not in the
   cache is always logged and cached. *)
C20_DiskLoggedFromFivePoints ==
  [][\A usage \in DiskUsages : sweep_disk(usage) =>
       \A d \in KeptDevices :
         /\ d \in DOMAIN last_logged_usage'
         /\ IF d \notin DOMAIN last_logged_usage
            THEN last_logged_usage'[d] = usage[d]
            ELSE IF Abs(last_logged_usage[d] - usage[d]) >= DiskNoise
            THEN last_logged_usage'[d] = usage[d]
            ELSE last_logged_usage'[d] = last_logged_usage[d]]_vars

----------------------------------------------------------------------------
(* Properties of the Supervisor and the Monitor's life (SpecSuper) *)

(* C21: once a shutdown is signalled to the Monitor, its two loops end at an
   iteration boundary: when the child ends, no sweep is under way and no
   command is half read, removed or handled. *)
C21_ShutdownAtIterationBoundary ==
  cut # <<>> => cut[1].sweep = 0 /\ cut[1].rd = "idle"

(* A step spawns a child. *)
Spawns == Len(procs') > Len(procs)

(* A step forgets the handle of the child. *)
Forgets == monitoring_process # <<>> /\ monitoring_process' = <<>>

(* C22: after any sequence of start and shutdown commands at most one child
   has not exited; a child is spawned only when none exists or the last one
   has exited; the handle is forgotten only by a shutdown that has sent the
   signal and waited until that child has exited. *)
C22_AtMostOneChild ==
  /\ [](Cardinality(Live) <= 1)
  /\ [][Spawns => Live = {}]_vars
  /\ [][Forgets => stop_pc = "wait" /\ procs[monitoring_process[1]] = "exited"]_vars

(* A second child was started after a shutdown ended the first; it alone runs. *)
C22_Witness ==
  /\ Len(procs) >= 2
  /\ cut # <<>>
  /\ Cardinality(Live) = 1
  /\ monitoring_process = <<Len(procs)>>
  /\ bot_said = "Monitoring script started."

====
